---- MODULE Spec2Model ----
(***************************************************************************)
(* Model of streamlit-copilot-studio: the citation normaliser              *)
(* (copilot_client.clean_citations, format_references_html), the client    *)
(* wrapper (CopilotStudioClient.start_conversation, send_message) and the  *)
(* Streamlit script (app.main with its inner process_response).            *)
(*                                                                         *)
(* Text is a sequence of tokens.  The token "O" stands for the opening     *)
(* delimiter U+E200 "cite" U+E202 of a citation marker, "E" for the closing *)
(* code point U+E201, "\n" for a newline and " " for a blank; every other   *)
(* token is an ordinary piece of text.  Rendered text (what is shown and   *)
(* stored in the transcript) is a sequence of uniform records built by     *)
(* Tok.  The empty string stands for an absent (None) or empty string,     *)
(* which the code never tells apart.                                       *)
(***************************************************************************)
EXTENDS Integers, Sequences, FiniteSets, TLC

VARIABLES
    messages,           \* st.session_state.messages
    client,             \* st.session_state.client (NoClient, or its _conversation_id)
    pc,                 \* position of the script: "idle", "streaming", or "clean"
    transport,          \* what the transport holds for the current ask_question
    nread,              \* activities the current send_message has read
    asked,              \* whether the current send_message invoked ask_question
    out,                \* events the current send_message has yielded so far
    acc,                \* locals of process_response
    eocAt,              \* position of the end-of-conversation activity read, or 0
    outcome,            \* how the last turn ended: "none", "completed", "raised"
    before,             \* the transcript when the last prompt was submitted
    handshake,          \* the activities of the last start_conversation
    renewed,            \* whether the New button was used in this session
    cc                  \* a call of clean_citations: its arguments and result

vars == <<messages, client, pc, transport, nread, asked, out, acc, eocAt,
          outcome, before, handshake, renewed, cc>>

(***************************************************************************)
(* Bounds of the model.                                                    *)
(***************************************************************************)
\* segments a text given to clean_citations is built from
MaxSegs == 4
\* activities the transport holds for the first turn of a conversation
MaxStream == 3
\* activities the transport holds for a turn of a session
MaxSessionStream == 2
\* prompts submitted in one conversation of a session
MaxTurns == 2
\* activities of a start_conversation handshake
MaxHandshake == 2

(***************************************************************************)
(* Generic helpers.                                                        *)
(***************************************************************************)
Range(s) == {s[i] : i \in 1..Len(s)}

RECURSIVE SeqsUpTo(_, _)
\* all sequences over S of length at most n
SeqsUpTo(S, n) ==
    IF n = 0 THEN {<<>>}
    ELSE LET shorter == SeqsUpTo(S, n - 1)
         IN  shorter \cup {Append(s, x) : s \in {t \in shorter : Len(t) = n - 1}, x \in S}

RECURSIVE Flatten(_)
\* "".join(parts)
Flatten(parts) ==
    IF parts = <<>> THEN <<>> ELSE Head(parts) \o Flatten(Tail(parts))

\* one token of rendered text
Tok(k, c, n, url, title) == [k |-> k, c |-> c, n |-> n, url |-> url, title |-> title]
\* an ordinary token, passed through
Chr(c) == Tok("text", c, 0, "", "")
\* a text shown as it is
Plain(text) == [i \in 1..Len(text) |-> Chr(text[i])]

(***************************************************************************)
(* clean_citations (copilot_client.py 14-66).                              *)
(***************************************************************************)
NoMeta == <<>>

\* citation_metadata.get(citation_id, {})
MetaOf(citation_metadata, citation_id) ==
    IF citation_id \in DOMAIN citation_metadata
    THEN [url |-> citation_metadata[citation_id].url,
          title |-> citation_metadata[citation_id].title, found |-> TRUE]
    ELSE [url |-> "", title |-> "", found |-> FALSE]

\* f'Source {num}'
SourceTitle(num) == "Source " \o ToString(num)

\* the close of the marker opened at i: the match of (.+?) after the
\* opening delimiter, 0 when the pattern does not match at i
MarkerEnd(text, i) ==
    IF \/ i > Len(text)
       \/ text[i] # "O"
    THEN 0
    ELSE LET closers == {j \in (i + 2)..Len(text) : text[j] = "E"}
         IN  IF closers = {} THEN 0
             ELSE LET j == CHOOSE c \in closers : \A d \in closers : c <= d
                  IN  IF \E m \in (i + 1)..(j - 1) : text[m] = "\n" THEN 0 ELSE j

\* index in the registry (insertion order) of citation_id, 0 if unseen
RegIndex(citations, citation_id) ==
    IF \E i \in 1..Len(citations) : citations[i].id = citation_id
    THEN CHOOSE i \in 1..Len(citations) : citations[i].id = citation_id
    ELSE 0

\* mutant of NextCounter: the counter advances on every marker
NextCounterEveryMatch(citations, citation_id, counter) == counter + 1

\* lines 38-40: the counter advances only for an unseen identifier
NextCounter(citations, citation_id, counter) ==
    IF RegIndex(citations, citation_id) = 0 THEN counter + 1 ELSE counter

\* lines 38-46: the registry after the marker of citation_id
Register(citations, citation_id, counter, citation_metadata) ==
    IF RegIndex(citations, citation_id) = 0
    THEN LET num == NextCounter(citations, citation_id, counter)
             meta == MetaOf(citation_metadata, citation_id)
         IN  Append(citations,
                    [id |-> citation_id, num |-> num, url |-> meta.url,
                     title |-> IF meta.found THEN meta.title ELSE SourceTitle(num)])
    ELSE citations

\* mutant of replace_citation: a link whenever a url is known
replace_citation_always_html(cite_info, use_html) ==
    IF cite_info.url # ""
    THEN Tok("link", "", cite_info.num, cite_info.url, "")
    ELSE Tok("plain", "", cite_info.num, "", "")

\* lines 48-57: what replaces the marker
replace_citation(cite_info, use_html) ==
    IF use_html /\ cite_info.url # ""
    THEN Tok("link", "", cite_info.num, cite_info.url, "")
    ELSE Tok("plain", "", cite_info.num, "", "")

RECURSIVE Scan(_, _, _, _, _, _, _)
\* re.sub over text from position i, left to right, without overlap
Scan(text, i, citations, counter, cleaned, use_html, citation_metadata) ==
    IF i > Len(text)
    THEN [cleaned |-> cleaned, citations |-> citations, counter |-> counter]
    ELSE LET j == MarkerEnd(text, i)
         IN  IF j = 0
             THEN Scan(text, i + 1, citations, counter, Append(cleaned, Chr(text[i])),
                       use_html, citation_metadata)
             ELSE LET citation_id == SubSeq(text, i + 1, j - 1)
                      reg == Register(citations, citation_id, counter, citation_metadata)
                      cnt == NextCounter(citations, citation_id, counter)
                      cite_info == reg[RegIndex(reg, citation_id)]
                  IN  Scan(text, j + 1, reg, cnt,
                           Append(cleaned, replace_citation(cite_info, use_html)),
                           use_html, citation_metadata)

\* lines 63-64: the registry keyed by number (a later entry replaces an
\* earlier one of the same number, as in a dict comprehension)
ByNum(citations) ==
    LET nums == {citations[i].num : i \in 1..Len(citations)}
        last(n) == CHOOSE i \in 1..Len(citations) :
                      /\ citations[i].num = n
                      /\ \A k \in 1..Len(citations) : citations[k].num = n => k <= i
    IN  [n \in nums |-> [id |-> citations[last(n)].id, url |-> citations[last(n)].url,
                         title |-> citations[last(n)].title]]

\* clean_citations(text, use_html, citation_metadata) -> (cleaned, citations_by_num)
\* (the arguments and the result of the scan are bound as values, so that
\* each is evaluated once)
clean_citations(text, use_html, citation_metadata) ==
    IF text = <<>>
    THEN [cleaned |-> <<>>, citations |-> <<>>]
    ELSE CHOOSE result \in
            { [cleaned |-> r.cleaned, citations |-> ByNum(r.citations)] :
                 r \in { Scan(t, 1, <<>>, 0, <<>>, use_html, m) :
                            t \in {text}, m \in {citation_metadata} } } : TRUE

(***************************************************************************)
(* format_references_html (copilot_client.py 69-85).                       *)
(***************************************************************************)
RECURSIVE RefLines(_, _)
\* the entries of the footer for the numbers in todo, ascending
RefLines(citations, todo) ==
    IF todo = {} THEN <<>>
    ELSE LET num == CHOOSE n \in todo : \A m \in todo : n <= m
             cite == citations[num]
         IN  <<IF cite.url # ""
               THEN Tok("reflink", "", num, cite.url, cite.title)
               ELSE Tok("refspan", "", num, "", cite.title)>>
             \o RefLines(citations, todo \ {num})

format_references_html(citations) ==
    IF DOMAIN citations = {} THEN <<>>
    ELSE <<Tok("refhead", "References:", 0, "", "")>>
         \o RefLines(citations, DOMAIN citations)
         \o <<Tok("refend", "", 0, "", "")>>

(***************************************************************************)
(* Activities of the transport (microsoft_agents Activity), as far as the  *)
(* code reads them.                                                        *)
(***************************************************************************)
NoConversation == [present |-> FALSE, id |-> ""]
Conversation(id) == [present |-> TRUE, id |-> id]

\* an activity: type, text, channel_data (whether it is a dict, its
\* streamType and chunkType, "none" when the key is absent), value.thought,
\* value.observation.search_result.search_results, entities,
\* suggested_actions.actions (titles) and conversation
Activity(type, text, cdDict, streamType, chunkType, thought, results, entities, actions, conversation) ==
    [type |-> type, text |-> text, cdDict |-> cdDict, streamType |-> streamType,
     chunkType |-> chunkType, thought |-> thought, results |-> results,
     entities |-> entities, actions |-> actions, conversation |-> conversation]

\* an entry of search_results: a dict with its Url/Name, or something else
Res(isDict, url, title) == [isDict |-> isDict, url |-> url, title |-> title]
\* an entity: whether its type names a Claim or citation, its id, url, title
Ent(isClaim, id, url, title) == [isClaim |-> isClaim, id |-> id, url |-> url, title |-> title]

Typing(text, streamType, chunkType) ==
    Activity("typing", text, TRUE, streamType, chunkType, "", <<>>, <<>>, <<>>, NoConversation)
Message(text, streamType, entities, actions) ==
    Activity("message", text, TRUE, streamType, "none", "", <<>>, entities, actions, NoConversation)
Event(thought, results) ==
    Activity("event", <<>>, TRUE, "none", "none", thought, results, <<>>, <<>>, NoConversation)
EndOfConversation ==
    Activity("end_of_conversation", <<>>, TRUE, "none", "none", "", <<>>, <<>>, <<>>, NoConversation)

(***************************************************************************)
(* Events send_message yields: (type, content) tuples.                     *)
(***************************************************************************)
NoSr == [index |-> -1, url |-> "", title |-> ""]
NoMap == <<>>

\* ('status' | 'content' | 'final_content' | 'suggestion' | 'thought', text),
\* ('citations', cmap), ('search_result', sr); src is the position in the
\* transport of the activity the event was derived from (0: from none)
Ev(type, text, cmap, sr, src) ==
    [type |-> type, text |-> text, cmap |-> cmap, sr |-> sr, src |-> src]

ConversationEnded == <<"Conversation ended.">>
NoActiveConversation == <<"Error: No active conversation.">>

(***************************************************************************)
(* send_message (copilot_client.py 114-253): the events of one activity.   *)
(***************************************************************************)
\* lines 159-180: a thought (the task label is not modelled)
ThoughtEvents(reply, src) ==
    IF reply.type = "event" /\ reply.thought # ""
    THEN <<Ev("thought", <<reply.thought>>, NoMap, NoSr, src)>>
    ELSE <<>>

RECURSIVE SearchResultEvents(_, _, _)
\* lines 183-196: one search_result per dict of the list, index = position
SearchResultEvents(results, idx, src) ==
    IF idx >= Len(results) THEN <<>>
    ELSE (IF results[idx + 1].isDict
          THEN <<Ev("search_result", <<>>, NoMap,
                    [index |-> idx, url |-> results[idx + 1].url,
                     title |-> results[idx + 1].title], src)>>
          ELSE <<>>)
         \o SearchResultEvents(results, idx + 1, src)

\* mutant of TypingEvents: the delta is looked at before the status
TypingEventsDeltaFirst(reply, src) ==
    IF reply.type = "typing" /\ reply.cdDict /\ reply.text # <<>>
    THEN IF reply.chunkType = "delta"
         THEN <<Ev("content", reply.text, NoMap, NoSr, src)>>
         ELSE IF reply.streamType = "informative"
              THEN <<Ev("status", reply.text, NoMap, NoSr, src)>>
              ELSE <<>>
    ELSE <<>>

\* lines 198-209
TypingEvents(reply, src) ==
    IF reply.type = "typing" /\ reply.cdDict
    THEN IF reply.streamType = "informative" /\ reply.text # <<>>
         THEN <<Ev("status", reply.text, NoMap, NoSr, src)>>
         ELSE IF reply.chunkType = "delta" /\ reply.text # <<>>
              THEN <<Ev("content", reply.text, NoMap, NoSr, src)>>
              ELSE <<>>
    ELSE <<>>

RECURSIVE CitationMapOf(_, _)
\* lines 213-232: the citation_map of the entities, a later entity of the
\* same id replacing an earlier one
CitationMapOf(entities, citation_map) ==
    IF entities = <<>> THEN citation_map
    ELSE LET ent == Head(entities)
         IN  IF ent.isClaim /\ ent.id # <<>>
             THEN CitationMapOf(Tail(entities),
                     [k \in DOMAIN citation_map \cup {ent.id} |->
                         IF k = ent.id THEN [url |-> ent.url, title |-> ent.title]
                         ELSE citation_map[k]])
             ELSE CitationMapOf(Tail(entities), citation_map)

RECURSIVE JoinTitles(_)
\* ", ".join(actions)
JoinTitles(actions) ==
    IF actions = <<>> THEN <<>>
    ELSE IF Len(actions) = 1 THEN <<actions[1]>>
    ELSE <<actions[1], ", ">> \o JoinTitles(Tail(actions))

\* mutant of FinalContentEvents: the text of every message is final content
FinalContentEventsAnyTag(reply, src) ==
    IF reply.text # <<>>
    THEN <<Ev("final_content", reply.text, NoMap, NoSr, src)>>
    ELSE <<>>

\* lines 239-243: stream_type is None when channel_data is no dict
FinalContentEvents(reply, src) ==
    IF reply.text # <<>>
       /\ (~reply.cdDict \/ reply.streamType \in {"final", "none"})
    THEN <<Ev("final_content", reply.text, NoMap, NoSr, src)>>
    ELSE <<>>

\* lines 211-249
MessageEvents(reply, src) ==
    IF reply.type = "message"
    THEN LET citation_map == CitationMapOf(reply.entities, NoMap)
         IN  (IF DOMAIN citation_map # {}
              THEN <<Ev("citations", <<>>, citation_map, NoSr, src)>>
              ELSE <<>>)
             \o FinalContentEvents(reply, src)
             \o (IF reply.actions # <<>>
                 THEN <<Ev("suggestion", JoinTitles(reply.actions), NoMap, NoSr, src)>>
                 ELSE <<>>)
    ELSE <<>>

\* mutant of EndEvents: the end of the conversation is not announced
EndEventsSilent(reply, src) == <<>>

\* lines 251-252
EndEvents(reply, src) ==
    IF reply.type = "end_of_conversation"
    THEN <<Ev("status", ConversationEnded, NoMap, NoSr, src)>>
    ELSE <<>>

\* mutant of StopsReading: the loop goes on after the end of the conversation
StopsReadingNever(reply) == FALSE

\* line 253: break
StopsReading(reply) == reply.type = "end_of_conversation"

\* the events yielded for one reply, in order (lines 132-253)
Classify(reply, src) ==
    ThoughtEvents(reply, src)
    \o (IF reply.type = "event" THEN SearchResultEvents(reply.results, 0, src) ELSE <<>>)
    \o TypingEvents(reply, src)
    \o MessageEvents(reply, src)
    \o EndEvents(reply, src)

(***************************************************************************)
(* process_response (app.py 108-183): the fold over the yielded events.    *)
(***************************************************************************)
\* lines 109-114
FreshAcc ==
    [content_parts |-> <<>>, suggestions |-> <<>>, citation_metadata |-> NoMap,
     search_results |-> <<>>, thoughts |-> <<>>, got_streaming |-> FALSE,
     status |-> <<>>, preview |-> <<>>]

\* mutant of TurnAcc: what the previous call accumulated is kept
TurnAccKept(previous) == previous

\* lines 108-114: the locals of a call of process_response start fresh,
\* whatever an earlier call left
TurnAcc(previous) == FreshAcc

Digits == {"0", "1", "2", "3", "4", "5", "6", "7", "8", "9"}

DigitValue(d) == CHOOSE v \in 0..9 : ToString(v) = d

RECURSIVE ParseInt(_)
\* int(match.group(1))
ParseInt(ds) ==
    IF ds = <<>> THEN 0
    ELSE 10 * ParseInt(SubSeq(ds, 1, Len(ds) - 1)) + DigitValue(ds[Len(ds)])

\* lines 150-152: re.search(r'search(\d+)$', cite_id), -1 when there is no
\* match; $ matches at the end and before a newline that ends the string
SearchIndex(cite_id) ==
    LET e == IF cite_id # <<>> /\ cite_id[Len(cite_id)] = "\n"
             THEN Len(cite_id) - 1 ELSE Len(cite_id)
        starts == {p \in 1..(e - 1) :
                      /\ cite_id[p] = "search"
                      /\ \A q \in (p + 1)..e : cite_id[q] \in Digits}
    IN  IF starts = {} THEN -1
        ELSE ParseInt(SubSeq(cite_id, (CHOOSE p \in starts : TRUE) + 1, e))

\* lines 154-155: the position of the first search result of index idx, 0 if none
FirstWithIndex(search_results, idx) ==
    LET hits == {i \in 1..Len(search_results) : search_results[i].index = idx}
    IN  IF hits = {} THEN 0 ELSE CHOOSE i \in hits : \A k \in hits : i <= k

\* mutant of CrossLink: the title of the search result always replaces the
\* record's title
CrossLinkTitleAlways(cite_id, cite_info, search_results) ==
    LET idx == SearchIndex(cite_id)
        at == IF idx >= 0 /\ cite_info.url = ""
              THEN FirstWithIndex(search_results, idx) ELSE 0
    IN  IF at = 0 THEN cite_info
        ELSE [url |-> search_results[at].url, title |-> search_results[at].title]

\* mutant of CrossLink: the search result is taken by its position in the
\* list, not by its index field
CrossLinkByPosition(cite_id, cite_info, search_results) ==
    LET idx == SearchIndex(cite_id)
        at == IF idx >= 0 /\ cite_info.url = "" /\ idx + 1 <= Len(search_results)
              THEN idx + 1 ELSE 0
    IN  IF at = 0 THEN cite_info
        ELSE [url |-> search_results[at].url,
              title |-> IF cite_info.title = "" THEN search_results[at].title
                        ELSE cite_info.title]

\* lines 150-159: the incoming record, enriched from the search results
CrossLink(cite_id, cite_info, search_results) ==
    LET idx == SearchIndex(cite_id)
        at == IF idx >= 0 /\ cite_info.url = ""
              THEN FirstWithIndex(search_results, idx) ELSE 0
    IN  IF at = 0 THEN cite_info
        ELSE [url |-> search_results[at].url,
              title |-> IF cite_info.title = "" THEN search_results[at].title
                        ELSE cite_info.title]

\* mutant of MergeCitations: only an identifier new to the table is enriched
\* from the search results
MergeCitationsLinkNewOnly(citation_metadata, msg_content, search_results) ==
    [k \in DOMAIN citation_metadata \cup DOMAIN msg_content |->
        IF k \notin DOMAIN msg_content THEN citation_metadata[k]
        ELSE IF k \in DOMAIN citation_metadata THEN msg_content[k]
        ELSE CrossLink(k, msg_content[k], search_results)]

\* lines 147-160: citation_metadata.update(msg_content) after the enrichment
MergeCitations(citation_metadata, msg_content, search_results) ==
    [k \in DOMAIN citation_metadata \cup DOMAIN msg_content |->
        IF k \in DOMAIN msg_content
        THEN CrossLink(k, msg_content[k], search_results)
        ELSE citation_metadata[k]]

\* mutant of OnFinalContent: the final text always replaces the accumulated one
OnFinalContentAlways(a, msg_content) ==
    [a EXCEPT !.content_parts = <<msg_content>>,
              !.preview = clean_citations(msg_content, FALSE, NoMeta).cleaned]

\* lines 138-143
OnFinalContent(a, msg_content) ==
    IF ~a.got_streaming
    THEN [a EXCEPT !.content_parts = <<msg_content>>,
                   !.preview = clean_citations(msg_content, FALSE, NoMeta).cleaned]
    ELSE a

\* lines 131-137
OnContent(a, msg_content) ==
    LET parts == Append(a.content_parts, msg_content)
    IN  [a EXCEPT !.got_streaming = TRUE,
                  !.content_parts = parts,
                  !.preview = clean_citations(Flatten(parts), FALSE, NoMeta).cleaned]

\* mutant of OnSearchResult: the citations already in the table are linked
\* to the search results again
OnSearchResultRelinks(a, msg_content) ==
    LET results == Append(a.search_results, msg_content)
    IN  [a EXCEPT !.search_results = results,
                  !.citation_metadata =
                      [k \in DOMAIN a.citation_metadata |->
                          CrossLink(k, a.citation_metadata[k], results)]]

\* lines 128-130
OnSearchResult(a, msg_content) ==
    [a EXCEPT !.search_results = Append(@, msg_content)]

\* lines 117-162: one iteration of the loop
Fold(a, ev) ==
    CASE ev.type = "status" -> [a EXCEPT !.status = ev.text]
      [] ev.type = "thought" -> [a EXCEPT !.thoughts = Append(@, ev.text)]
      [] ev.type = "search_result" -> OnSearchResult(a, ev.sr)
      [] ev.type = "content" -> OnContent(a, ev.text)
      [] ev.type = "final_content" -> OnFinalContent(a, ev.text)
      [] ev.type = "citations" ->
            [a EXCEPT !.citation_metadata = MergeCitations(@, ev.cmap, a.search_results)]
      [] ev.type = "suggestion" -> [a EXCEPT !.suggestions = ev.text]
      [] OTHER -> a

RECURSIVE FoldAll(_, _)
FoldAll(a, evs) ==
    IF evs = <<>> THEN a ELSE FoldAll(Fold(a, Head(evs)), Tail(evs))

\* mutant of Response: the last preview shown is kept as the text
ResponseFromPreview(a) ==
    LET r == clean_citations(Flatten(a.content_parts), TRUE, a.citation_metadata)
    IN  IF DOMAIN r.citations # {}
        THEN a.preview \o format_references_html(r.citations)
        ELSE a.preview

\* lines 173-183: the response returned when the loop is over
Response(a) ==
    LET raw_content == Flatten(a.content_parts)
        r == clean_citations(raw_content, TRUE, a.citation_metadata)
    IN  IF DOMAIN r.citations # {}
        THEN r.cleaned \o format_references_html(r.citations)
        ELSE r.cleaned

\* line 173: status_placeholder.empty(); line 193: the response is shown
Finished(a) == [a EXCEPT !.status = <<>>, !.preview = Response(a)]

UserMessage(prompt) == [role |-> "user", content |-> Plain(prompt)]
AssistantMessage(content) == [role |-> "assistant", content |-> content]

(***************************************************************************)
(* CopilotStudioClient (copilot_client.py 88-127).                         *)
(***************************************************************************)
\* st.session_state.client is None
NoClient == [live |-> FALSE, conversation_id |-> ""]

\* mutant of ConversationIdStep: only the first conversation reference is kept
ConversationIdStepKeepFirst(conversation_id, activity) ==
    IF activity.conversation.present /\ conversation_id = ""
    THEN activity.conversation.id ELSE conversation_id

\* lines 109-110
ConversationIdStep(conversation_id, activity) ==
    IF activity.conversation.present THEN activity.conversation.id ELSE conversation_id

RECURSIVE ConversationIdAfter(_, _)
\* _conversation_id once the handshake stream is exhausted
ConversationIdAfter(conversation_id, activities) ==
    IF activities = <<>> THEN conversation_id
    ELSE ConversationIdAfter(ConversationIdStep(conversation_id, Head(activities)),
                             Tail(activities))

RECURSIVE WelcomeText(_)
\* lines 105-108: every text followed by a newline
WelcomeText(activities) ==
    IF activities = <<>> THEN <<>>
    ELSE (IF Head(activities).text # <<>> THEN Head(activities).text \o <<"\n">> ELSE <<>>)
         \o WelcomeText(Tail(activities))

Whitespace == {" ", "\n"}

RECURSIVE Strip(_)
\* str.strip()
Strip(text) ==
    IF text = <<>> THEN <<>>
    ELSE IF Head(text) \in Whitespace THEN Strip(Tail(text))
    ELSE IF text[Len(text)] \in Whitespace THEN Strip(SubSeq(text, 1, Len(text) - 1))
    ELSE text

\* lines 103-112: start_conversation on a new client; welcome <<>> is None
start_conversation(activities) ==
    [conversation_id |-> ConversationIdAfter("", activities),
     welcome |-> Strip(WelcomeText(activities))]

\* mutant of ConversationIdAfterReply: a conversation reference of a reply
\* is adopted, as start_conversation does
ConversationIdAdopted(conversation_id, reply) ==
    ConversationIdStep(conversation_id, reply)

\* lines 132-253: send_message reads reply.conversation nowhere and assigns
\* _conversation_id nowhere
ConversationIdAfterReply(conversation_id, reply) == conversation_id

\* mutant of SendStart: the error is yielded but the generator goes on
SendStartNoReturn(conversation_id) ==
    IF conversation_id = ""
    THEN [events |-> <<Ev("content", NoActiveConversation, NoMap, NoSr, 0)>>, asks |-> TRUE]
    ELSE [events |-> <<>>, asks |-> TRUE]

\* lines 125-132: what send_message yields before it reads the transport,
\* and whether it goes on to invoke ask_question
SendStart(conversation_id) ==
    IF conversation_id = ""
    THEN [events |-> <<Ev("content", NoActiveConversation, NoMap, NoSr, 0)>>, asks |-> FALSE]
    ELSE [events |-> <<>>, asks |-> TRUE]

(***************************************************************************)
(* The values the model draws its inputs from.                             *)
(***************************************************************************)
IdDoc == <<"doc">>
IdS0 == <<"turn1", "search", "0">>
IdS1 == <<"turn1", "search", "1">>

Marker(id) == <<"O">> \o id \o <<"E">>

\* a transport: the activities it delivers, and whether it then ends the
\* stream or raises
Transport(acts, fate) == [acts |-> acts, fate |-> fate]
NoTransport == Transport(<<>>, "end")

NoCall == [text |-> <<>>, use_html |-> FALSE, citation_metadata |-> NoMeta,
           done |-> FALSE, result |-> [cleaned |-> <<>>, citations |-> <<>>]]

Prompts == {<<"hi">>}

HandshakeActivities ==
    { Activity("message", <<"Hello">>, TRUE, "none", "none", "", <<>>, <<>>, <<>>,
               Conversation("c1")),
      Activity("event", <<>>, TRUE, "none", "none", "", <<>>, <<>>, <<>>,
               Conversation("c2")),
      Activity("typing", <<" ">>, TRUE, "none", "none", "", <<>>, <<>>, <<>>,
               NoConversation) }

\* the handshakes: streams of distinct activities
Handshakes ==
    { s \in SeqsUpTo(HandshakeActivities, MaxHandshake) :
         \A i, j \in 1..Len(s) : i < j => s[i] # s[j] }

SessionActivities ==
    { Typing(<<"a">>, "none", "delta"),
      Message(<<"f">> \o Marker(IdS0), "final", <<Ent(TRUE, IdS0, "", "")>>, <<>>),
      Event("", <<Res(TRUE, "s0", "N0")>>) }

SessionTransports ==
    {Transport(s, f) : s \in SeqsUpTo(SessionActivities, MaxSessionStream),
                       f \in {"end", "raise"}}

TurnActivities ==
    { Typing(<<"a">>, "none", "delta"),
      Typing(<<"b">> \o Marker(IdS0), "none", "delta"),
      Typing(<<"wait">>, "informative", "delta"),
      Message(<<"f">>, "final", <<>>, <<>>),
      Message(<<"g">> \o Marker(IdS0) \o Marker(IdDoc), "none",
              <<Ent(TRUE, IdS0, "", ""), Ent(FALSE, IdDoc, "x", "X")>>, <<>>),
      Message(<<"h">>, "streaming", <<Ent(TRUE, IdS0, "u0", "T0")>>, <<>>),
      Message(<<>>, "none", <<Ent(TRUE, IdS1, "", "T1"), Ent(TRUE, IdDoc, "", "")>>,
              <<"Yes", "No">>),
      Message(<<>>, "none", <<Ent(TRUE, IdDoc, "d", "D")>>, <<>>),
      Event("", <<Res(TRUE, "s0", "N0"), Res(TRUE, "s1", "N1")>>),
      Event("think", <<Res(FALSE, "", ""), Res(TRUE, "r1", "")>>),
      Activity("trace", <<"t">>, TRUE, "final", "delta", "", <<>>, <<>>, <<>>,
               Conversation("c9")),
      EndOfConversation }

TurnTransports == {Transport(s, "end") : s \in SeqsUpTo(TurnActivities, MaxStream)}

\* the typing and message activities of every shape: with and without text,
\* channel_data a dict or not, every streamType and chunkType
ShapeActivities ==
    { Activity(type, text, cdDict, streamType, chunkType, "", <<>>, <<>>, <<>>,
               NoConversation) :
        type \in {"typing", "message"}, text \in {<<>>, <<"a">>}, cdDict \in BOOLEAN,
        streamType \in {"none", "informative", "streaming", "final"},
        chunkType \in {"none", "delta"} }

ShapeTransports == {Transport(<<activity>>, "end") : activity \in ShapeActivities}

\* finite streams that raise no error
SendActivities == SessionActivities \cup {EndOfConversation}

SendTransports ==
    {Transport(s, "end") : s \in SeqsUpTo(SendActivities, MaxSessionStream)}

Segments ==
    { Marker(IdDoc), Marker(IdS0), Marker(IdS1), <<"a">>, <<"O">>, <<"E">>, <<"\n">> }

CleanTexts == {Flatten(ss) : ss \in SeqsUpTo(Segments, MaxSegs)}

CleanMetas ==
    { NoMeta,
      [k \in {IdDoc} |-> [url |-> "d", title |-> "D"]],
      [k \in {IdS0, IdS1} |-> [url |-> "", title |-> ""]] }

(***************************************************************************)
(* app.main (app.py 40-200): the runs of the script.                       *)
(***************************************************************************)
UserTurns(msgs) == Cardinality({i \in 1..Len(msgs) : msgs[i].role = "user"})

\* mutant of AfterRaise: what was accumulated is stored as the answer
AfterRaiseStoresPartial(msgs, a) == Append(msgs, AssistantMessage(Response(a)))

\* lines 187-190: the error leaves run_until_complete; line 200 is not reached
AfterRaise(msgs, a) == msgs

\* lines 183-200: the loop is over; the response is shown and stored
Complete(msgs, a) ==
    /\ acc' = Finished(a)
    /\ messages' = Append(msgs, AssistantMessage(Response(a)))
    /\ pc' = "idle"
    /\ outcome' = "completed"

\* mutant of NewChat: the client is dropped and the transcript is kept
NewChatKeepsTranscript ==
    /\ pc = "idle"
    /\ client.live
    /\ client' = NoClient
    /\ transport' = NoTransport
    /\ nread' = 0
    /\ asked' = FALSE
    /\ out' = <<>>
    /\ acc' = FreshAcc
    /\ eocAt' = 0
    /\ outcome' = "none"
    /\ before' = <<>>
    /\ handshake' = <<>>
    /\ renewed' = TRUE
    /\ UNCHANGED <<messages, pc, cc>>

\* lines 61-64: the New button
NewChat ==
    /\ pc = "idle"
    /\ client.live
    /\ messages' = <<>>
    /\ client' = NoClient
    /\ transport' = NoTransport
    /\ nread' = 0
    /\ asked' = FALSE
    /\ out' = <<>>
    /\ acc' = FreshAcc
    /\ eocAt' = 0
    /\ outcome' = "none"
    /\ before' = <<>>
    /\ handshake' = <<>>
    /\ renewed' = TRUE
    /\ UNCHANGED <<pc, cc>>

\* lines 73-83: a run of the script with no client connects
Connect ==
    /\ pc = "idle"
    /\ ~client.live
    /\ \E activities \in Handshakes :
          LET started == start_conversation(activities)
          IN  /\ handshake' = activities
              /\ client' = [live |-> TRUE, conversation_id |-> started.conversation_id]
              /\ messages' = IF started.welcome # <<>>
                             THEN Append(messages, AssistantMessage(Plain(started.welcome)))
                             ELSE messages
    /\ UNCHANGED <<pc, transport, nread, asked, out, acc, eocAt, outcome, before,
                   renewed, cc>>

\* lines 95-116: a prompt is submitted, up to the first wait for the transport
Submit(prompt, t) ==
    /\ pc = "idle"
    /\ client.live
    /\ LET start == SendStart(client.conversation_id)
           a == FoldAll(TurnAcc(acc), start.events)
           msgs == Append(messages, UserMessage(prompt))
       IN  /\ before' = messages
           /\ out' = start.events
           /\ asked' = start.asks
           /\ nread' = 0
           /\ eocAt' = 0
           /\ IF start.asks
              THEN /\ transport' = t
                   /\ acc' = a
                   /\ messages' = msgs
                   /\ pc' = "streaming"
                   /\ outcome' = "none"
              ELSE /\ transport' = NoTransport
                   /\ Complete(msgs, a)
    /\ UNCHANGED <<client, handshake, renewed, cc>>

\* the first prompt of a conversation
FirstTurn ==
    /\ UserTurns(messages) = 0
    /\ \E prompt \in Prompts, t \in TurnTransports : Submit(prompt, t)

\* the first prompt of a conversation, answered by a stream that ends
SendTurn ==
    /\ UserTurns(messages) = 0
    /\ \E prompt \in Prompts, t \in SendTransports : Submit(prompt, t)

\* the first prompt of a conversation, answered by one activity
ShapeTurn ==
    /\ UserTurns(messages) = 0
    /\ \E prompt \in Prompts, t \in ShapeTransports : Submit(prompt, t)

\* a prompt of a session
Turn ==
    /\ UserTurns(messages) < MaxTurns
    /\ \E prompt \in Prompts, t \in SessionTransports : Submit(prompt, t)

\* lines 116-162 and 132-253: the transport delivers the next activity
Reply ==
    /\ pc = "streaming"
    /\ nread < Len(transport.acts)
    /\ LET reply == transport.acts[nread + 1]
           events == Classify(reply, nread + 1)
           a == FoldAll(acc, events)
       IN  /\ nread' = nread + 1
           /\ out' = out \o events
           /\ eocAt' = IF reply.type = "end_of_conversation" /\ eocAt = 0
                       THEN nread + 1 ELSE eocAt
           /\ client' = [client EXCEPT
                            !.conversation_id = ConversationIdAfterReply(@, reply)]
           /\ IF StopsReading(reply)
              THEN Complete(messages, a)
              ELSE /\ acc' = a
                   /\ UNCHANGED <<messages, pc, outcome>>
    /\ UNCHANGED <<transport, asked, before, handshake, renewed, cc>>

\* mutant of TransportEnd: the loop never learns that the stream is over
TransportNeverEnds ==
    /\ pc = "streaming"
    /\ nread = Len(transport.acts)
    /\ transport.fate = "end"
    /\ UNCHANGED vars

\* the transport ends the stream
TransportEnd ==
    /\ pc = "streaming"
    /\ nread = Len(transport.acts)
    /\ transport.fate = "end"
    /\ Complete(messages, acc)
    /\ UNCHANGED <<client, transport, nread, asked, out, eocAt, before, handshake,
                   renewed, cc>>

\* the transport raises
TransportFail ==
    /\ pc = "streaming"
    /\ nread = Len(transport.acts)
    /\ transport.fate = "raise"
    /\ messages' = AfterRaise(messages, acc)
    /\ pc' = "idle"
    /\ outcome' = "raised"
    /\ UNCHANGED <<client, transport, nread, asked, out, acc, eocAt, before, handshake,
                   renewed, cc>>

\* a call of clean_citations
CleanCall ==
    /\ pc = "clean"
    /\ ~cc.done
    /\ cc' = [cc EXCEPT !.done = TRUE,
                        !.result = clean_citations(cc.text, cc.use_html, cc.citation_metadata)]
    /\ UNCHANGED <<messages, client, pc, transport, nread, asked, out, acc, eocAt,
                   outcome, before, handshake, renewed>>

(***************************************************************************)
(* Specifications.                                                         *)
(***************************************************************************)
Quiet ==
    /\ transport = NoTransport
    /\ nread = 0
    /\ asked = FALSE
    /\ out = <<>>
    /\ acc = FreshAcc
    /\ eocAt = 0
    /\ outcome = "none"
    /\ before = <<>>
    /\ handshake = <<>>

\* a session: the script starts with an empty session state (init_session)
Init ==
    /\ messages = <<>>
    /\ client = NoClient
    /\ pc = "idle"
    /\ cc = NoCall
    /\ renewed = FALSE
    /\ Quiet

Next == NewChat \/ Connect \/ Turn \/ Reply \/ TransportEnd \/ TransportFail

Spec == Init /\ [][Next]_vars

\* the first turn of a conversation, over every stream of TurnActivities:
\* the session is connected, with or without a conversation identifier
InitTurn ==
    /\ \E activities \in Handshakes :
          /\ handshake = activities
          /\ client = [live |-> TRUE,
                       conversation_id |-> start_conversation(activities).conversation_id]
          /\ messages = IF start_conversation(activities).welcome # <<>>
                        THEN <<AssistantMessage(Plain(start_conversation(activities).welcome))>>
                        ELSE <<>>
    /\ Len(handshake) <= 1
    /\ pc = "idle"
    /\ cc = NoCall
    /\ transport = NoTransport
    /\ nread = 0
    /\ asked = FALSE
    /\ out = <<>>
    /\ acc = FreshAcc
    /\ eocAt = 0
    /\ outcome = "none"
    /\ before = <<>>
    /\ renewed = FALSE

NextTurn == FirstTurn \/ Reply \/ TransportEnd

SpecTurn == InitTurn /\ [][NextTurn]_vars

\* The first turn over the streams of a session's activities that end
\* without an error, under the scheduling of run_until_complete (app.py
\* 185-190): the loop runs the coroutine until it is done, so an activity the
\* transport has delivered is processed and the end of the stream ends the
\* loop.
NextSend == SendTurn \/ Reply \/ TransportEnd

SpecSendFair ==
    InitTurn /\ [][NextSend]_vars /\ WF_vars(Reply) /\ WF_vars(TransportEnd)

\* The first turn over the streams of one typing or message activity.
NextShape == ShapeTurn \/ Reply \/ TransportEnd

SpecShape == InitTurn /\ [][NextShape]_vars

\* calls of clean_citations
InitClean ==
    /\ messages = <<>>
    /\ client = NoClient
    /\ pc = "clean"
    /\ renewed = FALSE
    /\ Quiet
    /\ cc \in {[NoCall EXCEPT !.text = t, !.use_html = h, !.citation_metadata = m] :
                  t \in CleanTexts, h \in BOOLEAN, m \in CleanMetas}

NextClean == CleanCall

SpecClean == InitClean /\ [][NextClean]_vars

(***************************************************************************)
(* Properties.                                                             *)
(***************************************************************************)
\* the events the step has added to the output of the send
NewEvents == SubSeq(out', Len(out) + 1, Len(out'))

\* the step is an iteration of the loop of the current send
ReplyStep == pc = "streaming" /\ nread' = nread + 1

HasType(events, type) == \E i \in 1..Len(events) : events[i].type = type

Last(s) == s[Len(s)]

\* C1: once a 'content' event has been processed in a turn, a later
\* 'final_content' event of the turn leaves content_parts unchanged.
C1_FinalContentAfterDeltaIgnored ==
    [][(ReplyStep /\ HasType(out, "content") /\ HasType(NewEvents, "final_content"))
          => acc'.content_parts = acc.content_parts]_vars

\* C1 witness: a final_content was yielded after a content in one turn.
C1_Witness ==
    \E i, j \in 1..Len(out) :
        i < j /\ out[i].type = "content" /\ out[j].type = "final_content"

\* C2 (as stated): within a turn, a url that is non-empty in citation_metadata
\* for an identifier is never replaced by a different or an empty value.
C2_UrlNeverOverwritten ==
    [][pc = "streaming" =>
          \A k \in DOMAIN acc.citation_metadata :
              acc.citation_metadata[k].url # "" =>
                  /\ k \in DOMAIN acc'.citation_metadata
                  /\ acc'.citation_metadata[k].url = acc.citation_metadata[k].url]_vars

\* the positions in the output so far of the search results of index n
Observed(n) ==
    {i \in 1..Len(out) : out[i].type = "search_result" /\ out[i].sr.index = n}

Earliest(S) == CHOOSE i \in S : \A k \in S : i <= k

\* the CitationMaps the step has yielded
NewMaps ==
    {NewEvents[i].cmap : i \in {j \in 1..Len(NewEvents) : NewEvents[j].type = "citations"}}

\* C3 (amended): a CitationMap record whose identifier ends in search{N} and
\* whose url is empty takes the url of the earliest SearchResult of index N
\* observed before it in the turn, and its title when the record's own title
\* is empty; with no such SearchResult observed, the entry's url is empty.
C3_CrossLinkUrlAndMissingTitle ==
    [][ReplyStep =>
          \A m \in NewMaps : \A k \in DOMAIN m :
              LET n == SearchIndex(k)
                  entry == acc'.citation_metadata[k]
              IN  (n >= 0 /\ m[k].url = "") =>
                      IF Observed(n) = {}
                      THEN entry.url = "" /\ entry.title = m[k].title
                      ELSE LET sr == out[Earliest(Observed(n))].sr
                           IN  /\ entry.url = sr.url
                               /\ entry.title = IF m[k].title = "" THEN sr.title
                                                ELSE m[k].title]_vars

\* C3 (as stated): such a record takes the url and the title of a
\* SearchResult of index N observed before it in the turn, if there is one,
\* and otherwise its url stays empty.
C3_CrossLinkUrlAndTitle ==
    [][ReplyStep =>
          \A m \in NewMaps : \A k \in DOMAIN m :
              LET n == SearchIndex(k)
                  entry == acc'.citation_metadata[k]
              IN  (n >= 0 /\ m[k].url = "") =>
                      IF Observed(n) = {}
                      THEN entry.url = ""
                      ELSE \E i \in Observed(n) :
                              /\ entry.url = out[i].sr.url
                              /\ entry.title = out[i].sr.title]_vars

\* C3 witness: a record with a title and no url, of an identifier ending in
\* search{N}, was merged after a SearchResult of index N and has its url.
C3_Witness ==
    \E j \in 1..Len(out) :
        /\ out[j].type = "citations"
        /\ \E k \in DOMAIN out[j].cmap :
              /\ SearchIndex(k) >= 0
              /\ out[j].cmap[k].url = ""
              /\ out[j].cmap[k].title # ""
              /\ \E i \in 1..(j - 1) :
                    /\ out[i].type = "search_result"
                    /\ out[i].sr.index = SearchIndex(k)
                    /\ out[i].sr.url # ""
                    /\ k \in DOMAIN acc.citation_metadata
                    /\ acc.citation_metadata[k].url = out[i].sr.url

\* C4: a send with no conversation identifier yields exactly one event, a
\* 'content' carrying the error text, and ends without invoking ask_question
\* and without raising.
C4_NoConversationYieldsOneError ==
    (client.live /\ client.conversation_id = "" /\ UserTurns(messages) > 0) =>
        /\ out = <<Ev("content", NoActiveConversation, NoMap, NoSr, 0)>>
        /\ ~asked
        /\ nread = 0
        /\ pc = "idle"
        /\ outcome = "completed"

\* C4 witness: a prompt was submitted on a client with no conversation id.
C4_Witness ==
    client.live /\ client.conversation_id = "" /\ UserTurns(messages) = 1

\* C5 (as stated): after an end-of-conversation activity the output ends
\* with Status("Conversation ended.") followed by an EndOfTurn event.
C5_EndOfTurnIsLast ==
    eocAt # 0 =>
        /\ Len(out) >= 2
        /\ out[Len(out) - 1].type = "status"
        /\ out[Len(out) - 1].text = ConversationEnded
        /\ Last(out).type = "end_of_turn"

\* C5 (amended): after an end-of-conversation activity the output ends with
\* Status("Conversation ended."): it is the last event of the send, the
\* sequence is over, and no EndOfTurn event is yielded.
C5_ConversationEndedIsLast ==
    eocAt # 0 =>
        /\ out # <<>>
        /\ Last(out) = Ev("status", ConversationEnded, NoMap, NoSr, eocAt)
        /\ ~HasType(out, "end_of_turn")
        /\ pc = "idle"

\* C5 witness: the end of the conversation came after other events.
C5_Witness ==
    eocAt # 0 /\ Len(out) >= 2 /\ outcome = "completed"

\* C6: once the end-of-conversation activity is read, nothing that remains
\* in the transport is read and no event of a later activity is yielded.
C6_NothingReadAfterEnd ==
    eocAt # 0 =>
        /\ nread = eocAt
        /\ \A i \in 1..Len(out) : out[i].src <= eocAt
        /\ pc # "streaming"

\* C6 witness: the send is over and activities remain in the transport,
\* among them one that would yield events.
C6_Witness ==
    /\ eocAt # 0
    /\ eocAt < Len(transport.acts)
    /\ \E i \in (eocAt + 1)..Len(transport.acts) : Classify(transport.acts[i], i) # <<>>

\* the positions of the handshake activities with a conversation reference
Refs == {i \in 1..Len(handshake) : handshake[i].conversation.present}

\* C7 (as stated): the stored conversation id is the id of the first
\* activity of the handshake that carries a conversation reference.
C7_FirstConversationIdKept ==
    (client.live /\ Refs # {}) =>
        client.conversation_id =
            handshake[CHOOSE i \in Refs : \A k \in Refs : i <= k].conversation.id

\* C7 (amended): the stored conversation id is the id of the last activity
\* of the handshake that carries a conversation reference.
C7_LastConversationIdKept ==
    (client.live /\ Refs # {}) =>
        client.conversation_id =
            handshake[CHOOSE i \in Refs : \A k \in Refs : i >= k].conversation.id

\* C7 witness: the handshake carried two different conversation ids.
C7_Witness ==
    /\ client.live
    /\ \E i, j \in Refs : handshake[i].conversation.id # handshake[j].conversation.id

\* C8: when the transport raises during a turn, the turn is over and the
\* transcript is the one before the turn plus the user's message alone.
C8_RaiseLeavesOnlyUserMessage ==
    outcome = "raised" =>
        /\ pc = "idle"
        /\ Len(messages) = Len(before) + 1
        /\ SubSeq(messages, 1, Len(before)) = before
        /\ Last(messages).role = "user"

\* C8 witness: the transport raised after content had been accumulated, in
\* a turn that was not the first of the transcript.
C8_Witness ==
    /\ outcome = "raised"
    /\ acc.content_parts # <<>>
    /\ UserTurns(before) > 0

\* C9: processing the same CitationMap twice in succession gives the table
\* that processing it once gives.
C9_MergeIdempotent ==
    [][(/\ ReplyStep
        /\ nread >= 1
        /\ transport.acts[nread + 1] = transport.acts[nread]
        /\ HasType(NewEvents, "citations"))
          => acc'.citation_metadata = acc.citation_metadata]_vars

\* C9 witness: the same CitationMap was processed twice in succession, and
\* one of its records was filled from a search result.
C9_Witness ==
    /\ nread >= 2
    /\ transport.acts[nread] = transport.acts[nread - 1]
    /\ HasType(Classify(transport.acts[nread], nread), "citations")
    /\ \E k \in DOMAIN acc.citation_metadata :
          /\ SearchIndex(k) >= 0
          /\ acc.citation_metadata[k].url # ""
          /\ \E i \in 1..Len(out) :
                /\ out[i].type = "citations"
                /\ k \in DOMAIN out[i].cmap
                /\ out[i].cmap[k].url = ""

RECURSIVE MatchIds(_, _)
\* the identifiers of the citation markers of text from position i, in order
MatchIds(text, i) ==
    IF i > Len(text) THEN <<>>
    ELSE IF MarkerEnd(text, i) = 0 THEN MatchIds(text, i + 1)
    ELSE <<SubSeq(text, i + 1, MarkerEnd(text, i) - 1)>>
         \o MatchIds(text, MarkerEnd(text, i) + 1)

FirstAt(ids, id) == CHOOSE i \in 1..Len(ids) : ids[i] = id /\ \A k \in 1..(i - 1) : ids[k] # id

\* the rank of id by first occurrence among the distinct identifiers
Rank(ids, id) == Cardinality({d \in Range(ids) : FirstAt(ids, d) <= FirstAt(ids, id)})

RECURSIVE MarkerTokens(_)
\* the tokens that replace the markers, in order
MarkerTokens(cleaned) ==
    IF cleaned = <<>> THEN <<>>
    ELSE (IF Head(cleaned).k \in {"plain", "link"} THEN <<Head(cleaned)>> ELSE <<>>)
         \o MarkerTokens(Tail(cleaned))

\* C10: clean_citations gives each distinct identifier one number, used at
\* all its occurrences; the numbers are 1..n for n distinct identifiers, and
\* the number of an identifier is its rank by first occurrence.
C10_NumbersDenseInFirstOccurrenceOrder ==
    cc.done =>
        LET ids == MatchIds(cc.text, 1)
            refs == MarkerTokens(cc.result.cleaned)
        IN  /\ DOMAIN cc.result.citations = 1..Cardinality(Range(ids))
            /\ \A id \in Range(ids) : cc.result.citations[Rank(ids, id)].id = id
            /\ Len(refs) = Len(ids)
            /\ \A i \in 1..Len(ids) : refs[i].n = Rank(ids, ids[i])

\* C10 witness: a text with three markers of two identifiers, the first
\* identifier occurring again after the second.
C10_Witness ==
    /\ cc.done
    /\ LET ids == MatchIds(cc.text, 1)
       IN  Len(ids) >= 3 /\ ids[1] # ids[2] /\ ids[3] = ids[1]

\* C11: with use_html false every marker becomes the plain "[num]" and no
\* link is produced, whatever url the metadata gives the identifier; with
\* use_html true a marker becomes a link only if (and whenever) the url of
\* its identifier is non-empty.
C11_NoHtmlUnlessAskedAndUrlKnown ==
    cc.done =>
        LET ids == MatchIds(cc.text, 1)
            refs == MarkerTokens(cc.result.cleaned)
            url(i) == MetaOf(cc.citation_metadata, ids[i]).url
        IN  /\ Len(refs) = Len(ids)
            /\ \A i \in 1..Len(cc.result.cleaned) :
                  cc.result.cleaned[i].k \in {"text", "plain", "link"}
            /\ ~cc.use_html => \A i \in 1..Len(refs) : refs[i].k = "plain" /\ refs[i].url = ""
            /\ cc.use_html =>
                  \A i \in 1..Len(refs) :
                      /\ refs[i].k = "link" <=> url(i) # ""
                      /\ refs[i].k = "link" => refs[i].url = url(i)

\* C11 witness: a call with use_html false on a text with a marker whose
\* identifier has a url in the metadata.
C11_Witness ==
    /\ cc.done
    /\ ~cc.use_html
    /\ \E i \in 1..Len(MatchIds(cc.text, 1)) :
          MetaOf(cc.citation_metadata, MatchIds(cc.text, 1)[i]).url # ""

HasKind(content, k) == \E i \in 1..Len(content) : content[i].k = k

\* C12: the stored assistant response of a completed turn is the final
\* accumulated raw text run through clean_citations with use_html true and
\* the turn's citation table, followed by the references footer if and only
\* if the text has at least one citation.
C12_StoredResponseIsCleanedFinalText ==
    outcome = "completed" =>
        LET raw == Flatten(acc.content_parts)
            r == clean_citations(raw, TRUE, acc.citation_metadata)
            stored == Last(messages).content
        IN  /\ Last(messages).role = "assistant"
            /\ Len(messages) = Len(before) + 2
            /\ IF MatchIds(raw, 1) # <<>>
               THEN /\ stored = r.cleaned \o format_references_html(r.citations)
                    /\ HasKind(stored, "refhead")
               ELSE /\ stored = r.cleaned
                    /\ ~HasKind(stored, "refhead")

\* C12 witness: a stored response with a link and the footer, of a turn that
\* accumulated its text from more than one chunk.
C12_Witness ==
    /\ outcome = "completed"
    /\ Len(acc.content_parts) >= 2
    /\ HasKind(Last(messages).content, "link")
    /\ HasKind(Last(messages).content, "refhead")

RECURSIVE ClassifyAll(_, _, _)
\* the events of the activities i..n of acts, in order
ClassifyAll(acts, i, n) ==
    IF i > n THEN <<>> ELSE Classify(acts[i], i) \o ClassifyAll(acts, i + 1, n)

\* the accumulation state of process_response, without what is displayed
Accumulated(a) ==
    <<a.content_parts, a.got_streaming, a.thoughts, a.search_results,
      a.citation_metadata, a.suggestions>>

\* C13: the accumulated text, streaming flag, thoughts, search results,
\* citation table and suggestion of a turn are those of a fold, from fresh
\* state, over the events of the activities read in this turn alone: nothing
\* of an earlier turn enters them.
C13_TurnStateDependsOnOwnStreamOnly ==
    /\ (pc = "streaming" \/ outcome # "none") =>
          out = SendStart(client.conversation_id).events
                   \o ClassifyAll(transport.acts, 1, nread)
    /\ Accumulated(acc) = Accumulated(FoldAll(FreshAcc, out))

\* C13 witness: a second turn whose final_content was taken and whose
\* citation stayed without url, after a first turn that streamed content.
C13_Witness ==
    /\ UserTurns(messages) = 2
    /\ outcome = "completed"
    /\ HasType(out, "final_content")
    /\ ~acc.got_streaming
    /\ acc.content_parts # <<>>
    /\ IdS0 \in DOMAIN acc.citation_metadata
    /\ acc.citation_metadata[IdS0].url = ""
    /\ before # <<>>
    /\ Last(before).role = "assistant"
    /\ HasKind(Last(before).content, "text")
    /\ \E i \in 1..Len(Last(before).content) : Last(before).content[i].c = "a"


\* The transcript entry start_conversation's welcome text gives rise to.
WelcomeOf(activities) ==
    IF start_conversation(activities).welcome # <<>>
    THEN <<AssistantMessage(Plain(start_conversation(activities).welcome))>>
    ELSE <<>>

\* C14: whatever sends and New-chat actions came before, the session is
\* either without a client, and then the transcript is empty and no turn is
\* in progress, or it belongs to the conversation of the last handshake
\* alone: the client holds that handshake's conversation id, the transcript
\* starts with that handshake's welcome (if any), and every later assistant
\* message answers the user message directly before it.
C14_NewChatStartsAfresh ==
    /\ ~client.live => (messages = <<>> /\ pc = "idle" /\ handshake = <<>>)
    /\ pc = "streaming" => client.live
    /\ client.live =>
          LET w == WelcomeOf(handshake)
          IN  /\ client.conversation_id = start_conversation(handshake).conversation_id
              /\ Len(messages) >= Len(w)
              /\ SubSeq(messages, 1, Len(w)) = w
              /\ \A i \in (Len(w) + 1)..Len(messages) :
                    messages[i].role = "assistant" =>
                        (i > Len(w) + 1 /\ messages[i - 1].role = "user")

\* C14 witness: the New button was used, a new conversation was started and
\* a turn of it has completed.
C14_Witness ==
    /\ renewed
    /\ client.live
    /\ outcome = "completed"
    /\ WelcomeOf(handshake) # <<>>
    /\ UserTurns(messages) = 1


\* the turn is over and the transcript is the one before the turn, the
\* user's message and one assistant message
GrownByOneExchange ==
    /\ pc = "idle"
    /\ Len(messages) = Len(before) + 2
    /\ SubSeq(messages, 1, Len(before)) = before
    /\ messages[Len(before) + 1].role = "user"
    /\ messages[Len(before) + 2].role = "assistant"

\* C15: when the stream of a send is finite and the transport raises no
\* error, the output of send_message is that of the activities read (a
\* finite sequence), a turn in progress eventually completes, and at
\* completion the transcript has grown by exactly the user's message
\* followed by exactly one assistant message.
C15_FiniteStreamTurnCompletes ==
    /\ [](outcome = "completed" => GrownByOneExchange)
    /\ []((pc = "streaming" \/ outcome = "completed") =>
              /\ nread <= Len(transport.acts)
              /\ Len(out) = Len(SendStart(client.conversation_id).events
                                  \o ClassifyAll(transport.acts, 1, nread)))
    /\ (pc = "streaming") ~> (outcome = "completed" /\ GrownByOneExchange)

\* C15 witness: a turn has completed at the end of a stream of
\* MaxSessionStream activities, none of which ends the conversation
C15_Witness ==
    /\ outcome = "completed"
    /\ asked
    /\ nread = MaxSessionStream
    /\ eocAt = 0
    /\ Len(out) > MaxSessionStream


\* the activity the step reads
Read == transport.acts[nread + 1]

\* channel_data.get('streamType') and .get('chunkType'): absent ("none")
\* when channel_data is no dict
StreamType(activity) == IF activity.cdDict THEN activity.streamType ELSE "none"
ChunkType(activity) == IF activity.cdDict THEN activity.chunkType ELSE "none"

\* the (type, text) pairs of events
Pairs(events) == [i \in 1..Len(events) |-> <<events[i].type, events[i].text>>]

\* C16: for a typing activity send_message yields Status(text) alone if the
\* stream type is "informative" and text is present, otherwise
\* ContentDelta(text) alone if the chunk type is "delta" and text is present,
\* otherwise nothing; an activity tagged informative and delta with text
\* adds nothing to the accumulated answer.
C16_TypingYieldsStatusElseDelta ==
    [][(ReplyStep /\ Read.type = "typing") =>
          /\ Pairs(NewEvents) =
                IF StreamType(Read) = "informative" /\ Read.text # <<>>
                THEN <<(<<"status", Read.text>>)>>
                ELSE IF ChunkType(Read) = "delta" /\ Read.text # <<>>
                     THEN <<(<<"content", Read.text>>)>>
                     ELSE <<>>
          /\ (StreamType(Read) = "informative" /\ Read.text # <<>>) =>
                /\ acc'.content_parts = acc.content_parts
                /\ acc'.status = Read.text]_vars

\* C16 witness: a typing activity tagged informative and delta, with text,
\* was read; its text is the status and the answer is empty
C16_Witness ==
    /\ pc = "streaming"
    /\ nread = 1
    /\ transport.acts[1].type = "typing"
    /\ transport.acts[1].cdDict
    /\ transport.acts[1].streamType = "informative"
    /\ transport.acts[1].chunkType = "delta"
    /\ acc.status = transport.acts[1].text
    /\ acc.status # <<>>
    /\ acc.content_parts = <<>>

\* the events of the types that carry answer text
AnswerEvents(events) ==
    SelectSeq(Pairs(events), LAMBDA p : p[1] \in {"content", "final_content"})

\* C17: for a message activity send_message yields FinalContent(text) exactly
\* when text is present and the stream type is "final" or absent; with text
\* and any other stream type it yields neither FinalContent nor ContentDelta
\* and the accumulated answer is left as it was.
C17_MessageFinalOnlyWhenFinalOrUntagged ==
    [][(ReplyStep /\ Read.type = "message") =>
          /\ AnswerEvents(NewEvents) =
                IF Read.text # <<>> /\ StreamType(Read) \in {"final", "none"}
                THEN <<(<<"final_content", Read.text>>)>>
                ELSE <<>>
          /\ ~(Read.text # <<>> /\ StreamType(Read) \in {"final", "none"}) =>
                acc'.content_parts = acc.content_parts]_vars

\* C17 witness: a message with text and the stream type "streaming" was read
\* and the turn has completed with an empty answer
C17_Witness ==
    /\ outcome = "completed"
    /\ nread = 1
    /\ transport.acts[1].type = "message"
    /\ transport.acts[1].cdDict
    /\ transport.acts[1].streamType = "streaming"
    /\ transport.acts[1].text # <<>>
    /\ out = <<>>
    /\ messages[Len(messages)].content = <<>>


\* the texts of the events of a type, in order
TextsOf(events, type) ==
    LET of == SelectSeq(events, LAMBDA e : e.type = type)
    IN  [i \in 1..Len(of) |-> of[i].text]

\* C18 (as stated): at the end of a turn the accumulated raw text is the
\* in-order concatenation of the texts of all ContentDelta events of the
\* turn, or the text of a single FinalContent event of the turn, or empty;
\* never a FinalContent text with ContentDelta texts appended.
C18_DeltasOrOneFinal ==
    outcome = "completed" =>
        LET raw == Flatten(acc.content_parts)
        IN  \/ raw = <<>>
            \/ raw = Flatten(TextsOf(out, "content"))
            \/ \E i \in 1..Len(out) : out[i].type = "final_content" /\ raw = out[i].text


\* C19: no step of a send (the submission, the processing of a reply, the
\* end of the stream) changes the client's conversation identifier, whether
\* or not the replies carry a conversation reference and also on the
\* no-conversation error path: it stays the one start_conversation assigned.
C19_SendKeepsConversationId ==
    [][/\ client'.conversation_id = client.conversation_id
       /\ client'.conversation_id = start_conversation(handshake').conversation_id]_vars

\* C19 witness: a turn has completed in which a reply carried the reference
\* of another conversation than the client's
C19_Witness ==
    /\ outcome = "completed"
    /\ client.conversation_id # ""
    /\ \E i \in 1..nread :
          /\ transport.acts[i].conversation.present
          /\ transport.acts[i].conversation.id # client.conversation_id


\* the search results of the events, in order
ResultsOf(events) ==
    LET of == SelectSeq(events, LAMBDA e : e.type = "search_result")
    IN  [i \in 1..Len(of) |-> of[i].sr]

\* the positions before p in the output of the search results of index n
ObservedBefore(n, p) == {i \in Observed(n) : i < p}

\* the position in the output of the last CitationMap that holds cite_id
LastMapOf(cite_id) ==
    LET at == {i \in 1..Len(out) :
                  out[i].type = "citations" /\ cite_id \in DOMAIN out[i].cmap}
    IN  CHOOSE i \in at : \A k \in at : k <= i

\* C20: cross-linking happens only when a CitationMap is processed. A step
\* that yields search results and no CitationMap appends them to
\* search_results and leaves the citation table as it was; so the url of a
\* record that came without one is that of the earliest search result of
\* its index observed before its (last) CitationMap, and is empty when the
\* matching search result came only later.
C20_CrossLinkOnlyAtCitationMap ==
    /\ [][ReplyStep =>
             /\ acc'.search_results = acc.search_results \o ResultsOf(NewEvents)
             /\ ~HasType(NewEvents, "citations") =>
                   acc'.citation_metadata = acc.citation_metadata]_vars
    /\ [](\A k \in DOMAIN acc.citation_metadata :
             LET p == LastMapOf(k)
                 seen == ObservedBefore(SearchIndex(k), p)
             IN  out[p].cmap[k].url = "" =>
                    acc.citation_metadata[k].url =
                       IF seen = {} THEN "" ELSE out[Earliest(seen)].sr.url)

\* C20 witness: a turn has completed in which the CitationMap of a citation
\* came without a url before the search result of its index; the url is
\* still empty
C20_Witness ==
    /\ outcome = "completed"
    /\ \E k \in DOMAIN acc.citation_metadata :
          /\ acc.citation_metadata[k].url = ""
          /\ \E i \in Observed(SearchIndex(k)) : i > LastMapOf(k) /\ out[i].sr.url # ""

====
